---- MODULE Spec2Model ----
(***************************************************************************)
(* A model of En_word.c: the word store (library[], wordCount), the folder *)
(* index (folderList[], folderCount), the tab-separated file               *)
(* english_word.txt, and the menu operations that read and change them.    *)
(*                                                                         *)
(* C strings are sequences of one-character strings.  C arrays are         *)
(* functions on 0..n-1, so that indices read as they do in the source.     *)
(***************************************************************************)
EXTENDS Integers, Sequences, FiniteSets, Bags, TLC

\* ------------------------------------------------------------------ sizes
\* #define WORD_MAX 1000 and FOLDER_MAX 50, scaled down so that a full
\* store and a full folder list are reached.  LINE_BUF keeps its value.
WORD_MAX == 3
FOLDER_MAX == 2
LINE_BUF == 300

\* Bounds of the model (not of the program).
MaxErr == 2      \* a quiz miss is only explored while errorCount < MaxErr
MaxRand == 2     \* rand() returns a value in 0..MaxRand

\* ------------------------------------------------------------ characters
TAB == "\t"
CR == "\r"
NL == "\n"

UpperCase == <<"A","B","C","D","E","F","G","H","I","J","K","L","M",
               "N","O","P","Q","R","S","T","U","V","W","X","Y","Z">>
LowerCase == <<"a","b","c","d","e","f","g","h","i","j","k","l","m",
               "n","o","p","q","r","s","t","u","v","w","x","y","z">>
Digits == <<"0","1","2","3","4","5","6","7","8","9">>

MinOf(S) == CHOOSE x \in S : \A y \in S : x <= y

\* str[i] += 32 when 'A' <= str[i] <= 'Z'
LowerChar(c) ==
    IF \E k \in 1..26 : UpperCase[k] = c
    THEN LowerCase[CHOOSE k \in 1..26 : UpperCase[k] = c]
    ELSE c

toLowerEN(str) == [i \in 1..Len(str) |-> LowerChar(str[i])]

\* -------------------------------------------------------------- strtok
\* One strtok call on the string s, resuming at position p, with the
\* delimiter set D: skip leading delimiters; no character left gives NULL
\* (found = FALSE); otherwise the token runs to the next delimiter, which
\* is overwritten by '\0', and the scan resumes after it.
SkipDelims(s, p, D) ==
    MinOf({q \in p..(Len(s) + 1) : q = Len(s) + 1 \/ s[q] \notin D})

ScanToken(s, p, D) ==
    MinOf({q \in p..(Len(s) + 1) : q = Len(s) + 1 \/ s[q] \in D})

strtok(s, p, D) ==
    LET b == SkipDelims(s, p, D)
        e == ScanToken(s, b, D)
    IN  IF b > Len(s)
        THEN [found |-> FALSE, tok |-> <<>>, next |-> Len(s) + 1]
        ELSE [found |-> TRUE, tok |-> SubSeq(s, b, e - 1),
              next |-> IF e > Len(s) THEN e ELSE e + 1]

\* ---------------------------------------------------------------- atoi
DigitVal(c) == (CHOOSE k \in 1..10 : Digits[k] = c) - 1
IsDigit(c) == \E k \in 1..10 : Digits[k] = c

RECURSIVE AtoiDigits(_, _, _)
AtoiDigits(s, p, acc) ==
    IF p > Len(s) \/ ~IsDigit(s[p]) THEN acc
    ELSE AtoiDigits(s, p + 1, acc * 10 + DigitVal(s[p]))

\* atoi: leading white space, an optional sign, then decimal digits up to
\* the first character that is not one; no digits gives 0.
atoi(s) ==
    LET b == SkipDelims(s, 1, {" "})
        neg == b <= Len(s) /\ s[b] = "-"
        sgn == b <= Len(s) /\ s[b] \in {"-", "+"}
        v == AtoiDigits(s, IF sgn THEN b + 1 ELSE b, 0)
    IN  IF neg THEN 0 - v ELSE v

\* --------------------------------------------------------- printf("%d")
RECURSIVE NatToStr(_)
NatToStr(n) ==
    IF n < 10 THEN <<Digits[n + 1]>>
    ELSE Append(NatToStr(n \div 10), Digits[(n % 10) + 1])

IntToStr(n) == IF n < 0 THEN <<"-">> \o NatToStr(0 - n) ELSE NatToStr(n)

\* ----------------------------------------------------------------- Word
\* typedef struct { english, chinese, folder, errorCount } Word;
Word(f, en, ch, n) ==
    [folder |-> f, english |-> en, chinese |-> ch, errorCount |-> n]

\* A slot of the zero-initialised global array.
ZeroWord == Word(<<>>, <<>>, <<>>, 0)

\* The (folder, english, chinese, errorCount) tuples of the occupied slots,
\* in storage order.
Records(lib, wc) == [k \in 1..wc |-> lib[k - 1]]

\* ---------------------------------------------------------------- isFull
\* A slip of isFull that lets one entry too many in.
isFull_OffByOne(wc) == wc > WORD_MAX

isFull(wc) == wc >= WORD_MAX

\* ------------------------------------------------------ updateFolderList
updateFolderList(name, fl, fc) ==
    IF \E i \in 0..(fc - 1) : fl[i] = name
    THEN [folderList |-> fl, folderCount |-> fc]
    ELSE IF fc < FOLDER_MAX
         THEN [folderList |-> [fl EXCEPT ![fc] = name], folderCount |-> fc + 1]
         ELSE [folderList |-> fl, folderCount |-> fc]

\* ------------------------------------------------------------- parseLine
\* The store as one value, for the functions that change several globals.
Store(lib, wc, fl, fc) ==
    [library |-> lib, wordCount |-> wc, folderList |-> fl, folderCount |-> fc]

\* A slip of parseLine that takes a line without a count for malformed.
parseLine_Strict(line, s) ==
    IF isFull(s.wordCount) THEN s
    ELSE
    LET folderTok == strtok(line, 1, {TAB})
        en == strtok(line, folderTok.next, {TAB})
        ch == strtok(line, en.next, {TAB, CR, NL})
        errStr == strtok(line, ch.next, {TAB, CR, NL})
    IN  IF ~folderTok.found \/ ~en.found \/ ~ch.found \/ ~errStr.found THEN s
        ELSE
        LET w == Word(folderTok.tok, en.tok, ch.tok, atoi(errStr.tok))
            f == updateFolderList(folderTok.tok, s.folderList, s.folderCount)
        IN  Store([s.library EXCEPT ![s.wordCount] = w], s.wordCount + 1,
                  f.folderList, f.folderCount)

parseLine(line, s) ==
    IF isFull(s.wordCount) THEN s
    ELSE
    LET folderTok == strtok(line, 1, {TAB})
        en == strtok(line, folderTok.next, {TAB})
        ch == strtok(line, en.next, {TAB, CR, NL})
        errStr == strtok(line, ch.next, {TAB, CR, NL})
    IN  IF ~folderTok.found \/ ~en.found \/ ~ch.found THEN s
        ELSE
        LET w == Word(folderTok.tok, en.tok, ch.tok,
                      IF errStr.found THEN atoi(errStr.tok) ELSE 0)
            f == updateFolderList(folderTok.tok, s.folderList, s.folderCount)
        IN  Store([s.library EXCEPT ![s.wordCount] = w], s.wordCount + 1,
                  f.folderList, f.folderCount)

\* ------------------------------------------------------------ saveToFile
\* fprintf(fp, "%s\t%s\t%s\t%d\n", folder, english, chinese, errorCount)
\* A slip of the format string: "%s\t%s\t%s %d\n".
RecordText_Space(w) ==
    w.folder \o <<TAB>> \o w.english \o <<TAB>> \o w.chinese \o <<" ">>
        \o IntToStr(w.errorCount) \o <<NL>>

RecordText(w) ==
    w.folder \o <<TAB>> \o w.english \o <<TAB>> \o w.chinese \o <<TAB>>
        \o IntToStr(w.errorCount) \o <<NL>>

RECURSIVE FileText(_, _)
\* The bytes saveToFile writes for library[0..wc).
FileText(lib, wc) ==
    IF wc = 0 THEN <<>>
    ELSE FileText(lib, wc - 1) \o RecordText(lib[wc - 1])

\* -------------------------------------------------------------- loadFile
\* fgets(line, LINE_BUF, fp): the characters up to and including the first
\* newline, at most LINE_BUF - 1 of them; the rest stays in the stream.
fgets(buf) ==
    LET nl == ScanToken(buf, 1, {NL})
        lim == IF LINE_BUF - 1 < Len(buf) THEN LINE_BUF - 1 ELSE Len(buf)
        n == IF nl < lim THEN nl ELSE lim
    IN  [line |-> SubSeq(buf, 1, n), rest |-> SubSeq(buf, n + 1, Len(buf))]

RECURSIVE ReadAll(_, _)
\* while (fgets(line, sizeof(line), fp)) parseLine(line);
ReadAll(buf, s) ==
    IF buf = <<>> THEN s
    ELSE ReadAll(fgets(buf).rest, parseLine(fgets(buf).line, s))

EmptyLibrary == [i \in 0..(WORD_MAX - 1) |-> ZeroWord]
EmptyFolderList == [i \in 0..(FOLDER_MAX - 1) |-> <<>>]
EmptyStore == Store(EmptyLibrary, 0, EmptyFolderList, 0)

\* ------------------------------------------------------------ int arrays
EmptyArr == [i \in {} |-> 0]

\* arr[n] = v, for an array holding n elements.
Put(arr, n, v) == [i \in 0..n |-> IF i = n THEN v ELSE arr[i]]

Swap(arr, i, j) == [arr EXCEPT ![i] = arr[j], ![j] = arr[i]]

\* The values held by arr[0..n), as a set.
Elems(arr, n) == {arr[i] : i \in 0..(n - 1)}

\* --------------------------------------------------------------- shuffle
RECURSIVE shuffleFrom_NoTemp(_, _, _, _)
\* A slip of the exchange that leaves out temp: arr[i] = arr[j]; arr[j] = arr[i];
shuffleFrom_NoTemp(arr, i, rnd, k) ==
    IF i > 0
    THEN LET j == rnd[k] % (i + 1)
         IN  shuffleFrom_NoTemp([arr EXCEPT ![i] = arr[j]], i - 1, rnd, k + 1)
    ELSE arr

RECURSIVE shuffleFrom(_, _, _, _)
\* The loop of shuffle from index i down, the k-th call of rand() next.
shuffleFrom(arr, i, rnd, k) ==
    IF i > 0
    THEN LET j == rnd[k] % (i + 1)
         IN  shuffleFrom(Swap(arr, i, j), i - 1, rnd, k + 1)
    ELSE arr

\* shuffle(arr, n), rnd being the values rand() returns, in call order.
shuffle(arr, n, rnd) == shuffleFrom(arr, n - 1, rnd, 1)

\* The sequences of n - 1 values rand() may return during shuffle(arr, n).
Draws(n) == [1..(IF n > 1 THEN n - 1 ELSE 0) -> 0..MaxRand]

\* -------------------------------------------------------- collectIndices
RECURSIVE collectFrom(_, _, _, _, _, _, _)
\* The loop of collectIndices from i on; all stands for folder == NULL.
collectFrom(all, name, lib, wc, i, result, count) ==
    IF i < wc
    THEN IF all \/ lib[i].folder = name
         THEN collectFrom(all, name, lib, wc, i + 1, Put(result, count, i),
                          count + 1)
         ELSE collectFrom(all, name, lib, wc, i + 1, result, count)
    ELSE [arr |-> result, n |-> count]

collectIndices(all, name, lib, wc) ==
    collectFrom(all, name, lib, wc, 0, EmptyArr, 0)

\* -------------------------------------- collecting the entries with misses
RECURSIVE collectErrorsFrom(_, _, _, _, _)
\* for (i = 0; i < wordCount; i++) if (library[i].errorCount > 0) ...
collectErrorsFrom(lib, wc, i, arr, n) ==
    IF i < wc
    THEN IF lib[i].errorCount > 0
         THEN collectErrorsFrom(lib, wc, i + 1, Put(arr, n, i), n + 1)
         ELSE collectErrorsFrom(lib, wc, i + 1, arr, n)
    ELSE [arr |-> arr, n |-> n]

collectErrors(lib, wc) == collectErrorsFrom(lib, wc, 0, EmptyArr, 0)

\* ------------------------------------------ showErrorList: selection sort
RECURSIVE findMaxPos_Least(_, _, _, _, _)
\* A slip of the inner loop that looks for the fewest misses.
findMaxPos_Least(lib, arr, n, j, maxPos) ==
    IF j < n
    THEN findMaxPos_Least(lib, arr, n, j + 1,
             IF lib[arr[j]].errorCount < lib[arr[maxPos]].errorCount
             THEN j ELSE maxPos)
    ELSE maxPos

RECURSIVE findMaxPos(_, _, _, _, _)
\* The inner loop: for (j = i + 1; j < errorTotal; j++) if (... > ...) maxPos = j
findMaxPos(lib, arr, n, j, maxPos) ==
    IF j < n
    THEN findMaxPos(lib, arr, n, j + 1,
             IF lib[arr[j]].errorCount > lib[arr[maxPos]].errorCount
             THEN j ELSE maxPos)
    ELSE maxPos

RECURSIVE sortFrom(_, _, _, _)
\* The outer loop from i on: swap errorIdx[i] with the maximum found.
sortFrom(lib, arr, n, i) ==
    IF i < n - 1
    THEN LET maxPos == findMaxPos(lib, arr, n, i + 1, i)
         IN  sortFrom(lib, IF maxPos # i THEN Swap(arr, i, maxPos) ELSE arr,
                      n, i + 1)
    ELSE arr

\* The ranked list showErrorList prints.
rankErrors(lib, wc) ==
    LET c == collectErrors(lib, wc)
    IN  [arr |-> sortFrom(lib, c.arr, c.n, 0), n |-> c.n]

\* ------------------------------------------------------------ askQuestion
\* A slip of askQuestion that compares the answer as typed.
askQuestion_NoLower(lib, wordIdx, answer, sc) ==
    IF answer = lib[wordIdx].english
    THEN [correct |-> TRUE, library |-> lib, score |-> sc + 1]
    ELSE [correct |-> FALSE,
          library |-> [lib EXCEPT ![wordIdx].errorCount = @ + 1],
          score |-> sc]

\* A slip of askQuestion that clears the misses on record after a match.
askQuestion_Forgive(lib, wordIdx, answer, sc) ==
    IF toLowerEN(answer) = lib[wordIdx].english
    THEN [correct |-> TRUE,
          library |-> [lib EXCEPT ![wordIdx].errorCount = 0],
          score |-> sc + 1]
    ELSE [correct |-> FALSE,
          library |-> [lib EXCEPT ![wordIdx].errorCount = @ + 1],
          score |-> sc]

\* One question: the answer is lower-cased and compared with the english
\* field; a match adds one to the score, a miss adds one to errorCount.
askQuestion(lib, wordIdx, answer, sc) ==
    IF toLowerEN(answer) = lib[wordIdx].english
    THEN [correct |-> TRUE, library |-> lib, score |-> sc + 1]
    ELSE [correct |-> FALSE,
          library |-> [lib EXCEPT ![wordIdx].errorCount = @ + 1],
          score |-> sc]

\* ------------------------------------------------- deleteWord: the removal
\* A slip of the removal that forgets to move the last entry down.
removeAt_NoMove(lib, wc, i) ==
    [library |-> [lib EXCEPT ![wc - 1] = ZeroWord], wordCount |-> wc - 1]

\* library[i] = library[wordCount - 1]; wordCount--;
\* The slot given up keeps its bytes in the program; no code reads a slot
\* at or after wordCount before writing it, so the model shows it zeroed.
removeAt(lib, wc, i) ==
    [library |-> [lib EXCEPT ![i] = lib[wc - 1], ![wc - 1] = ZeroWord],
     wordCount |-> wc - 1]

\* The first index whose english equals target, or -1.
findWord(lib, wc, target) ==
    IF \E i \in 0..(wc - 1) : lib[i].english = target
    THEN MinOf({i \in 0..(wc - 1) : lib[i].english = target})
    ELSE -1

\* ================================================================ inputs
\* Every text below fits the buffer it is read into (EN_LEN, CN_LEN,
\* LINE_BUF), so that no strcpy runs past the end of a field.
Str_end == <<"e", "n", "d">>

\* english_word.txt as the program may find it at start: three records
\* in three folders with 1, 1 and 2 misses, a line with two fields only,
\* and a fourth record; or records written by hand, with capital letters,
\* without the count, or with a count that is no number.
Line1 == <<"a", TAB, "b", TAB, "x", TAB, "1", NL>>
Line2 == <<"c", TAB, "d", TAB, "x", TAB, "1", NL>>
Line3 == <<"e", TAB, "b", TAB, "x", TAB, "2", NL>>
Line4 == <<"c", TAB, "D", TAB, "X", NL>>
Line5 == <<"q", TAB, "r", NL>>
Line6 == <<"c", TAB, "b", TAB, "x", TAB, "z", NL>>

InitFiles ==
    { Line1 \o Line2 \o Line5 \o Line3 \o Line6,
      Line4 \o Line5 \o Line6 }

\* What the user types at the folder prompt of AddWord.
FolderInputs == { <<>>, <<"c">>, <<"C">> }

\* What the user types at the "> " prompt of AddWord.
LineInputs ==
    { Str_end,
      <<"b">>,
      <<"b", TAB, "x">>,
      <<"D", TAB, "X">> }

\* What the user types as a quiz answer (scanf("%49s"): one word).
Answers == { <<"b">>, <<"D">> }

\* What the user types at the prompt of deleteWord.
DeleteInputs == { Str_end, <<"b">>, <<"D">> }

\* ================================================================= state
VARIABLES
    library,      \* Word library[WORD_MAX]
    wordCount,    \* int wordCount
    folderList,   \* char folderList[FOLDER_MAX][EN_LEN]
    folderCount,  \* int folderCount
    file,         \* the bytes of english_word.txt
    fileExists,   \* whether fopen(..., "r") finds the file
    pc,           \* where the program is
    inbuf,        \* loadFile: what is left to read of fp
    folder,       \* AddWord: char folder[EN_LEN]
    indices,      \* runTest: int indices[]
    total,        \* runTest: int total
    qi,           \* runTest: the loop variable i
    score,        \* runTest: int score
    wrongList,    \* runTest: int wrongList[]
    wrongCount,   \* runTest: int wrongCount
    errorIdx,     \* showErrorList: int errorIdx[]
    errorTotal,   \* showErrorList: int errorTotal
    saveRet,      \* what the last call of saveToFile returned (-1: no call)
    writable,     \* whether fopen(..., "w") succeeds: the code names missing
                  \* write permission as the cause, which is fixed for a run
    last,         \* the last step taken and what the user typed for it
    lib0,         \* library[] as it was when runTest began
    answers       \* the answers typed so far in this runTest

vars == <<library, wordCount, folderList, folderCount, file, fileExists, pc,
          inbuf, folder, indices, total, qi, score, wrongList, wrongCount,
          errorIdx, errorTotal, saveRet, writable, last, lib0, answers>>

storeVars == <<library, wordCount, folderList, folderCount>>
diskVars == <<file, fileExists, saveRet, writable>>
addVars == <<folder>>
testVars == <<indices, total, qi, score, wrongList, wrongCount, lib0, answers>>
listVars == <<errorIdx, errorTotal>>

CurStore == Store(library, wordCount, folderList, folderCount)

SetStore(s) ==
    /\ library' = s.library
    /\ wordCount' = s.wordCount
    /\ folderList' = s.folderList
    /\ folderCount' = s.folderCount

Step(op, res, in1, in2) == [op |-> op, res |-> res, in1 |-> in1, in2 |-> in2]

Init ==
    /\ library = EmptyLibrary
    /\ wordCount = 0
    /\ folderList = EmptyFolderList
    /\ folderCount = 0
    /\ fileExists \in BOOLEAN
    /\ file \in (IF fileExists THEN InitFiles ELSE {<<>>})
    /\ pc = "start"
    /\ inbuf = <<>>
    /\ folder = <<>>
    /\ indices = EmptyArr
    /\ total = 0
    /\ qi = 0
    /\ score = 0
    /\ wrongList = EmptyArr
    /\ wrongCount = 0
    /\ errorIdx = EmptyArr
    /\ errorTotal = 0
    /\ saveRet = -1
    /\ writable \in BOOLEAN
    /\ last = Step("init", "", <<>>, <<>>)
    /\ lib0 = EmptyLibrary
    /\ answers = <<>>

\* ============================================================== actions
\* A slip of saveToFile that opens the file with "a" instead of "w".
saveToFile_Append(lib, wc) ==
    /\ file' = IF writable THEN file \o FileText(lib, wc) ELSE file
    /\ fileExists' = (fileExists \/ writable)
    /\ saveRet' = IF writable THEN 1 ELSE 0
    /\ UNCHANGED writable

\* saveToFile: fopen(..., "w") either fails (the file is left as it was and
\* 0 is returned) or the whole store is written.
saveToFile(lib, wc) ==
    /\ file' = IF writable THEN FileText(lib, wc) ELSE file
    /\ fileExists' = (fileExists \/ writable)
    /\ saveRet' = IF writable THEN 1 ELSE 0
    /\ UNCHANGED writable

\* The locals of runTest and its callers, gone on return.
ResetTest ==
    /\ indices' = EmptyArr
    /\ total' = 0
    /\ qi' = 0
    /\ score' = 0
    /\ wrongList' = EmptyArr
    /\ wrongCount' = 0
    /\ lib0' = EmptyLibrary
    /\ answers' = <<>>

ResetList ==
    /\ errorIdx' = EmptyArr
    /\ errorTotal' = 0

\* ----------------------------------------------------------------- load
\* loadFile: fopen(..., "r"); a missing file is only a notice.
LoadOpen ==
    /\ pc = "start"
    /\ IF fileExists
       THEN /\ inbuf' = file
            /\ pc' = "load"
            /\ last' = Step("loadFile", "open", <<>>, <<>>)
       ELSE /\ inbuf' = inbuf
            /\ pc' = "menu"
            /\ last' = Step("loadFile", "absent", <<>>, <<>>)
    /\ UNCHANGED <<storeVars, diskVars, addVars, testVars, listVars>>

\* One turn of while (fgets(line, sizeof(line), fp)) parseLine(line);
LoadLine ==
    /\ pc = "load"
    /\ inbuf # <<>>
    /\ LET g == fgets(inbuf)
           s == parseLine(g.line, CurStore)
       IN  /\ SetStore(s)
           /\ inbuf' = g.rest
           /\ last' = Step("parseLine",
                           IF s.wordCount = wordCount THEN "skipped"
                           ELSE "stored", <<>>, <<>>)
    /\ UNCHANGED <<diskVars, pc, addVars, testVars, listVars>>

\* fgets returns NULL: fclose, back in main.
LoadDone ==
    /\ pc = "load"
    /\ inbuf = <<>>
    /\ pc' = "menu"
    /\ last' = Step("loadFile", "done", <<>>, <<>>)
    /\ UNCHANGED <<storeVars, diskVars, inbuf, addVars, testVars, listVars>>

\* -------------------------------------------------------------- AddWord
\* Menu choice 1: if (isFull()) return; otherwise on to the folder prompt.
AddWord ==
    /\ pc = "menu"
    /\ IF isFull(wordCount)
       THEN /\ pc' = "menu"
            /\ last' = Step("AddWord", "full", <<>>, <<>>)
       ELSE /\ pc' = "addfolder"
            /\ last' = Step("AddWord", "begin", <<>>, <<>>)
    /\ UNCHANGED <<storeVars, diskVars, inbuf, addVars, testVars, listVars>>

\* The folder prompt: an empty name is asked again, any other is
\* lower-cased and registered.
AddFolder(typed) ==
    /\ pc = "addfolder"
    /\ LET name == toLowerEN(typed)
       IN  IF Len(name) > 0
           THEN LET f == updateFolderList(name, folderList, folderCount)
                IN  /\ folder' = name
                    /\ folderList' = f.folderList
                    /\ folderCount' = f.folderCount
                    /\ pc' = "add"
                    /\ last' = Step("AddFolder", "set", typed, <<>>)
           ELSE /\ UNCHANGED <<folder, folderList, folderCount, pc>>
                /\ last' = Step("AddFolder", "empty", typed, <<>>)
    /\ UNCHANGED <<library, wordCount, diskVars, inbuf, testVars, listVars>>

\* One turn of while (!isFull()) { ... } in AddWord, raw being the line
\* typed; last.in1 keeps the folder as typed.
AddLine(raw) ==
    /\ pc = "add"
    /\ LET low == toLowerEN(raw)
           en == strtok(low, 1, {TAB})
           ch == strtok(low, en.next, {TAB})
           duplicate == \E i \in 0..(wordCount - 1) :
                           /\ library[i].folder = folder
                           /\ library[i].english = en.tok
                           /\ library[i].chinese = ch.tok
           wholeLine == folder \o <<TAB>> \o en.tok \o <<TAB>> \o ch.tok
           s == parseLine(wholeLine, CurStore)
       IN  IF low = Str_end
           THEN /\ pc' = "menu"
                /\ last' = Step("AddLine", "end", <<>>, <<>>)
                /\ UNCHANGED <<storeVars, diskVars>>
           ELSE IF ~en.found \/ ~ch.found \/ Len(en.tok) = 0 \/ Len(ch.tok) = 0
           THEN /\ pc' = "add"
                /\ last' = Step("AddLine", "format", last.in1, raw)
                /\ UNCHANGED <<storeVars, diskVars>>
           ELSE IF duplicate
           THEN /\ pc' = "add"
                /\ last' = Step("AddLine", "duplicate", last.in1, raw)
                /\ UNCHANGED <<storeVars, diskVars>>
           ELSE /\ SetStore(s)
                /\ saveToFile(s.library, s.wordCount)
                /\ pc' = IF isFull(s.wordCount) THEN "menu" ELSE "add"
                /\ last' = Step("AddLine", "added", last.in1, raw)
    /\ UNCHANGED <<inbuf, addVars, testVars, listVars>>

\* ------------------------------------------------------------- the quiz
\* shuffle(indices, total); runTest(indices, total): up to the first question.
BeginTest(op, c, rnd) ==
    /\ indices' = shuffle(c.arr, c.n, rnd)
    /\ total' = c.n
    /\ qi' = 0
    /\ score' = 0
    /\ wrongList' = EmptyArr
    /\ wrongCount' = 0
    /\ lib0' = library
    /\ answers' = <<>>
    /\ pc' = "quiz"
    /\ last' = Step(op, "begin", <<>>, <<>>)

\* A slip of takeTest that leaves out if (total == 0) return;
takeTest_NoCheck(option) ==
    /\ pc = "menu"
    /\ IF wordCount = 0 \/ option = 100
       THEN /\ pc' = "menu"
            /\ last' = Step("takeTest", "left", <<>>, <<>>)
            /\ UNCHANGED testVars
       ELSE /\ option = 99 \/ (option >= 1 /\ option <= folderCount)
            /\ LET c == collectIndices(option = 99,
                            IF option = 99 THEN <<>>
                            ELSE folderList[option - 1],
                            library, wordCount)
               IN  \E rnd \in Draws(c.n) : BeginTest("takeTest", c, rnd)
    /\ UNCHANGED <<storeVars, diskVars, inbuf, addVars, listVars>>

\* Menu choice 3: chooseFolder (option 1..folderCount, 99 or 100; any other
\* number is asked again), collectIndices, shuffle, runTest.
takeTest(option) ==
    /\ pc = "menu"
    /\ IF wordCount = 0 \/ option = 100
       THEN /\ pc' = "menu"
            /\ last' = Step("takeTest", "left", <<>>, <<>>)
            /\ UNCHANGED testVars
       ELSE /\ option = 99 \/ (option >= 1 /\ option <= folderCount)
            /\ LET c == collectIndices(option = 99,
                            IF option = 99 THEN <<>>
                            ELSE folderList[option - 1],
                            library, wordCount)
               IN  IF c.n = 0
                   THEN /\ pc' = "menu"
                        /\ last' = Step("takeTest", "empty", <<>>, <<>>)
                        /\ UNCHANGED testVars
                   ELSE \E rnd \in Draws(c.n) : BeginTest("takeTest", c, rnd)
    /\ UNCHANGED <<storeVars, diskVars, inbuf, addVars, listVars>>

\* One turn of the loop of runTest: askQuestion(indices[i], ...).
AskQuestion(answer) ==
    /\ pc = "quiz"
    /\ qi < total
    /\ LET r == askQuestion(library, indices[qi], answer, score)
       IN  /\ r.correct \/ library[indices[qi]].errorCount < MaxErr
           /\ library' = r.library
           /\ score' = r.score
           /\ IF r.correct
              THEN UNCHANGED <<wrongList, wrongCount>>
              ELSE /\ wrongList' = Put(wrongList, wrongCount, indices[qi])
                   /\ wrongCount' = wrongCount + 1
           /\ last' = Step("askQuestion",
                           IF r.correct THEN "correct" ELSE "miss",
                           <<>>, <<>>)
    /\ qi' = qi + 1
    /\ answers' = Append(answers, answer)
    /\ UNCHANGED <<wordCount, folderList, folderCount, diskVars, pc, inbuf,
                   addVars, indices, total, lib0, listVars>>

\* After the loop of runTest: the summary, then saveToFile().
FinishTest ==
    /\ pc = "quiz"
    /\ qi >= total
    /\ saveToFile(library, wordCount)
    /\ ResetTest
    /\ pc' = "menu"
    /\ last' = Step("runTest", "done", <<>>, <<>>)
    /\ UNCHANGED <<storeVars, inbuf, addVars, listVars>>

\* -------------------------------------------------------- showErrorList
\* Menu choice 4, up to the question whether to retest.
showErrorList ==
    /\ pc = "menu"
    /\ LET r == rankErrors(library, wordCount)
       IN  IF r.n = 0
           THEN /\ pc' = "menu"
                /\ last' = Step("showErrorList", "none", <<>>, <<>>)
                /\ UNCHANGED listVars
           ELSE /\ errorIdx' = r.arr
                /\ errorTotal' = r.n
                /\ pc' = "errlist"
                /\ last' = Step("showErrorList", "listed", <<>>, <<>>)
    /\ UNCHANGED <<storeVars, diskVars, inbuf, addVars, testVars>>

\* The answer to that question: 1 runs takeErrorTest, anything else returns.
ErrorListChoice(yn) ==
    /\ pc = "errlist"
    /\ ResetList
    /\ IF yn = 1
       THEN LET c == collectErrors(library, wordCount)
            IN  IF c.n = 0
                THEN /\ pc' = "menu"
                     /\ last' = Step("takeErrorTest", "empty", <<>>, <<>>)
                     /\ UNCHANGED testVars
                ELSE \E rnd \in Draws(c.n) : BeginTest("takeErrorTest", c, rnd)
       ELSE /\ pc' = "menu"
            /\ last' = Step("showErrorList", "left", <<>>, <<>>)
            /\ UNCHANGED testVars
    /\ UNCHANGED <<storeVars, diskVars, inbuf, addVars>>

\* ----------------------------------------------------------- deleteWord
\* Menu choice 7: the word typed is lower-cased and searched; yn is the
\* number read after "確定要刪除嗎？" (not read when nothing is found).
deleteWord(typed, yn) ==
    /\ pc = "menu"
    /\ LET target == toLowerEN(typed)
           i == findWord(library, wordCount, target)
           r == removeAt(library, wordCount, i)
       IN  IF wordCount = 0
           THEN /\ last' = Step("deleteWord", "nothing", <<>>, <<>>)
                /\ UNCHANGED <<library, wordCount, diskVars>>
           ELSE IF target = Str_end
           THEN /\ last' = Step("deleteWord", "end", <<>>, <<>>)
                /\ UNCHANGED <<library, wordCount, diskVars>>
           ELSE IF i = -1
           THEN /\ last' = Step("deleteWord", "notfound", <<>>, <<>>)
                /\ UNCHANGED <<library, wordCount, diskVars>>
           ELSE IF yn # 1
           THEN /\ last' = Step("deleteWord", "cancelled", <<>>, <<>>)
                /\ UNCHANGED <<library, wordCount, diskVars>>
           ELSE /\ library' = r.library
                /\ wordCount' = r.wordCount
                /\ saveToFile(r.library, r.wordCount)
                /\ last' = Step("deleteWord", "deleted", typed, <<>>)
    /\ UNCHANGED <<folderList, folderCount, pc, inbuf, addVars, testVars,
                   listVars>>

\* ----------------------------------------------------------------- exit
\* Menu choice 8: saveToFile(), and main's loop ends.
Exit ==
    /\ pc = "menu"
    /\ saveToFile(library, wordCount)
    /\ pc' = "exit"
    /\ last' = Step("exit", "", <<>>, <<>>)
    /\ UNCHANGED <<storeVars, inbuf, addVars, testVars, listVars>>

\* ================================================================= Spec
Next ==
    \/ LoadOpen
    \/ LoadLine
    \/ LoadDone
    \/ AddWord
    \/ \E typed \in FolderInputs : AddFolder(typed)
    \/ \E raw \in LineInputs : AddLine(raw)
    \/ \E option \in (1..FOLDER_MAX) \cup {99, 100} : takeTest(option)
    \/ \E answer \in Answers : AskQuestion(answer)
    \/ FinishTest
    \/ showErrorList
    \/ \E yn \in {0, 1} : ErrorListChoice(yn)
    \/ \E typed \in DeleteInputs, yn \in {0, 1} : deleteWord(typed, yn)
    \/ Exit

Spec == Init /\ [][Next]_vars

\* =============================================================== claims
\* The entries of library[0..wc) as a multiset of
\* (folder, english, chinese, errorCount).
BagOf(lib, wc) ==
    [w \in {lib[i] : i \in 0..(wc - 1)} |->
        Cardinality({i \in 0..(wc - 1) : lib[i] = w})]

\* The indices of the entries with a miss on record.
WithErrors == {i \in 0..(wordCount - 1) : library[i].errorCount > 0}

\* C1: in the list showErrorList has built, two entries with the same
\* errorCount stand in the order of their storage indices.
C1_TiesKeepStorageOrder ==
    pc = "errlist" =>
        \A p \in 0..(errorTotal - 1), q \in 0..(errorTotal - 1) :
            (p < q /\ library[errorIdx[p]].errorCount
                        = library[errorIdx[q]].errorCount)
                => errorIdx[p] < errorIdx[q]

\* C2: the list showErrorList has built holds every index with
\* errorCount > 0 exactly once and nothing else, and its errorCounts do not
\* increase from first to last.
C2_RankedIsSortedPermutation ==
    pc = "errlist" =>
        /\ DOMAIN errorIdx = 0..(errorTotal - 1)
        /\ Elems(errorIdx, errorTotal) = WithErrors
        /\ errorTotal = Cardinality(WithErrors)
        /\ \A p \in 0..(errorTotal - 2) :
              library[errorIdx[p]].errorCount
                  >= library[errorIdx[p + 1]].errorCount

\* The sort had to move something, and one entry is left out of the list.
C2_Witness ==
    /\ pc = "errlist"
    /\ errorTotal >= 2
    /\ errorTotal < wordCount
    /\ errorIdx[0] > errorIdx[1]

\* C3: between two operations, the folder index holds exactly the folder
\* names of the stored entries.
C3_FolderIndexExact ==
    pc = "menu" =>
        Elems(folderList, folderCount)
            = {library[i].folder : i \in 0..(wordCount - 1)}

\* C4: a confirmed delete lowers wordCount by one, and the entries stored
\* afterwards are, as a multiset, those stored before less one entry whose
\* english is the word typed.
C4_DeleteRemovesExactlyOne ==
    [][(last'.op = "deleteWord" /\ last'.res = "deleted") =>
          /\ wordCount' = wordCount - 1
          /\ \E i \in 0..(wordCount - 1) :
                /\ library[i].english = toLowerEN(last'.in1)
                /\ BagOf(library, wordCount)
                     = BagOf(library', wordCount') (+) SetToBag({library[i]})]_vars

\* An entry loaded third now stands first: the delete was not of the last
\* index, and the last entry was moved down.
C4_Witness ==
    /\ last.op = "deleteWord"
    /\ last.res = "deleted"
    /\ wordCount = 2
    /\ library[0].folder = <<"e">>
    /\ library[1].errorCount > 0

\* No field of an occupied slot holds a tab or a newline.
FieldsClean ==
    \A i \in 0..(wordCount - 1) :
        \A f \in {library[i].folder, library[i].english, library[i].chinese} :
            \A k \in 1..Len(f) : f[k] \notin {TAB, NL}

\* What loadFile makes of the bytes saveToFile writes for the current store.
Reloaded == ReadAll(FileText(library, wordCount), EmptyStore)

\* C5: writing the store and loading what was written into an empty store
\* gives the same multiset of (folder, english, chinese, errorCount).
C5_RoundTrip ==
    FieldsClean =>
        /\ Reloaded.wordCount = wordCount
        /\ BagOf(Reloaded.library, Reloaded.wordCount)
             = BagOf(library, wordCount)

\* A full store just written, with a miss on record and a capital letter.
C5_Witness ==
    /\ FieldsClean
    /\ wordCount = WORD_MAX
    /\ saveRet = 1
    /\ file = FileText(library, wordCount)
    /\ \E i \in 0..(wordCount - 1) : library[i].errorCount > 0
    /\ \E i \in 0..(wordCount - 1) : library[i].english = <<"D">>

\* The k-th answer of the session matches the entry it was asked about.
Matched(k) == toLowerEN(answers[k]) = lib0[indices[k - 1]].english

\* The positions (from 0) of the questions missed so far.
MissedAt == {k \in 0..(qi - 1) : ~Matched(k + 1)}

C7_FileIsStoreAtMenu ==
    (pc = "menu" /\ saveRet = 1) =>
        /\ file = FileText(library, wordCount)
        /\ Records(ReadAll(file, EmptyStore).library,
                   ReadAll(file, EmptyStore).wordCount)
             = Records(library, wordCount)

\* Back at the menu after a session with a miss, the store written.
C7_Witness ==
    /\ pc = "menu"
    /\ saveRet = 1
    /\ last.op = "runTest"
    /\ wordCount >= 2
    /\ \E i \in 0..(wordCount - 1) : library[i].errorCount = 2

\* The english and the chinese part of a line typed at the "> " prompt.
TypedEnglish(raw) == strtok(raw, 1, {TAB}).tok
TypedChinese(raw) == strtok(raw, strtok(raw, 1, {TAB}).next, {TAB}).tok

\* Equal up to the case of ASCII letters.
SameText(a, b) == toLowerEN(a) = toLowerEN(b)

\* C8: a line typed in AddWord whose folder, english and chinese are those
\* of a stored entry (folder and english up to the case of ASCII letters,
\* chinese exactly) is rejected, the store and the file staying as they
\* are; one whose english and chinese are those of a stored entry of
\* another folder, and of none of its own, is added.
C8_DuplicateRejected ==
    [][(last'.op = "AddLine" /\ last'.res # "end") =>
          LET f == last'.in1
              en == TypedEnglish(last'.in2)
              ch == TypedChinese(last'.in2)
              same == {i \in 0..(wordCount - 1) :
                          /\ SameText(library[i].english, en)
                          /\ library[i].chinese = ch}
          IN  /\ (\E i \in same : SameText(library[i].folder, f)) =>
                    /\ last'.res = "duplicate"
                    /\ UNCHANGED <<library, wordCount, file, saveRet>>
              /\ (same # {} /\ \A i \in same : ~SameText(library[i].folder, f))
                    => /\ last'.res = "added"
                       /\ wordCount' = wordCount + 1]_vars

\* C9: after a line is added, the last entry holds the folder and the
\* english typed, in lower case, the chinese exactly as typed, and
\* errorCount 0.
C9_AddStoresTyped ==
    (last.op = "AddLine" /\ last.res = "added") =>
        /\ wordCount >= 1
        /\ library[wordCount - 1] =
              Word(toLowerEN(last.in1), toLowerEN(TypedEnglish(last.in2)),
                   TypedChinese(last.in2), 0)

\* C10: wordCount stays within 0..WORD_MAX and folderCount within
\* 0..FOLDER_MAX, both arrays keep their size, and a record read or a line
\* typed while the store is full changes no entry.
C10_CapacityBound ==
    /\ [](/\ wordCount \in 0..WORD_MAX
          /\ folderCount \in 0..FOLDER_MAX
          /\ DOMAIN library = 0..(WORD_MAX - 1)
          /\ DOMAIN folderList = 0..(FOLDER_MAX - 1))
    /\ [][(wordCount = WORD_MAX
             /\ last'.op \in {"parseLine", "AddWord", "AddFolder", "AddLine"})
            => UNCHANGED <<library, wordCount, folderList, folderCount>>]_vars

\* A record of the file has just been turned away by a full store, the
\* folder list being full too.
C10_Witness ==
    /\ wordCount = WORD_MAX
    /\ folderCount = FOLDER_MAX
    /\ last.op = "parseLine"
    /\ last.res = "skipped"

\* a and b hold the same values the same number of times in their n places,
\* and have no other place.
SameMultiset(a, b, n) ==
    /\ DOMAIN a = 0..(n - 1)
    /\ DOMAIN b = 0..(n - 1)
    /\ \A v \in Elems(a, n) \cup Elems(b, n) :
          Cardinality({i \in 0..(n - 1) : a[i] = v})
              = Cardinality({i \in 0..(n - 1) : b[i] = v})

\* The first n places of arr.
Prefix(arr, n) == [i \in 0..(n - 1) |-> arr[i]]

\* The arrays a quiz begun by op may have collected before shuffling them.
Selections(op) ==
    IF op = "takeErrorTest"
    THEN {collectErrors(library, wordCount)}
    ELSE {collectIndices(o = 99, IF o = 99 THEN <<>> ELSE folderList[o - 1],
                         library, wordCount) : o \in (1..folderCount) \cup {99}}

\* C11: the order a quiz begins with is the array collected, shuffled by
\* some draws of rand(): it holds the same indices the same number of times
\* in places 0..total-1 and has no other place; and the same is true of
\* shuffle on every shorter array (down to length 0) for every sequence of
\* draws.
C11_ShuffleIsPermutation ==
    [][(last'.res = "begin" /\ last'.op \in {"takeTest", "takeErrorTest"}) =>
          \E c \in Selections(last'.op) :
              /\ total' = c.n
              /\ SameMultiset(indices', c.arr, c.n)
              /\ \E rnd \in Draws(c.n) : indices' = shuffle(c.arr, c.n, rnd)
              /\ \A n \in 0..c.n : \A rnd \in Draws(n) :
                    SameMultiset(shuffle(Prefix(c.arr, n), n, rnd),
                                 Prefix(c.arr, n), n)]_vars

\* A quiz over three entries begins in an order that took two exchanges.
C11_Witness ==
    /\ pc = "quiz"
    /\ qi = 0
    /\ total = 3
    /\ indices[0] = 2
    /\ indices[1] = 0
    /\ indices[2] = 1

RECURSIVE SplitOn(_, _)
\* The pieces of s between the characters of D, empty pieces included.
SplitOn(s, D) ==
    IF \A k \in 1..Len(s) : s[k] \notin D THEN <<s>>
    ELSE LET q == MinOf({k \in 1..Len(s) : s[k] \in D})
         IN  <<SubSeq(s, 1, q - 1)>> \o SplitOn(SubSeq(s, q + 1, Len(s)), D)

NonEmpty(piece) == piece # <<>>

\* The lines of a text, and the non-empty tab-separated parts of a line.
FileLines(text) == SplitOn(text, {NL})
Parts(line) == SelectSeq(SplitOn(line, {TAB}), NonEmpty)

IsWellFormed(line) == Len(Parts(line)) >= 3
WellFormedLines(text) == SelectSeq(FileLines(text), IsWellFormed)

\* A decimal number, and its value.
IsNumber(t) == t # <<>> /\ \A k \in 1..Len(t) : IsDigit(t[k])

RECURSIVE DecimalValue(_)
DecimalValue(t) ==
    IF t = <<>> THEN 0
    ELSE DecimalValue(SubSeq(t, 1, Len(t) - 1)) * 10 + DigitVal(t[Len(t)])

\* The entry a well-formed line stands for.
EntryOf(line) ==
    LET P == Parts(line)
    IN  Word(P[1], P[2], P[3],
             IF Len(P) >= 4 /\ IsNumber(P[4]) THEN DecimalValue(P[4]) ELSE 0)

Identity(w) == <<w.folder, w.english, w.chinese>>

\* C13: no step lowers the errorCount of an entry that stays in the store.
\* A delete leaves entries that were all there before, each with the
\* errorCount it had; any other step leaves every entry at its index, with
\* an errorCount at least as large.
C13_ErrorCountNeverDecreases ==
    [][IF last'.op = "deleteWord" /\ last'.res = "deleted"
       THEN BagOf(library', wordCount') \sqsubseteq BagOf(library, wordCount)
       ELSE /\ wordCount' >= wordCount
            /\ \A i \in 0..(wordCount - 1) :
                  /\ Identity(library'[i]) = Identity(library[i])
                  /\ library'[i].errorCount >= library[i].errorCount]_vars

\* After a quiz in which "d" was missed and "b" was matched, the first
\* entry has been deleted: the last entry stands in its place with its two
\* misses, and the entry missed has its two.
C13_Witness ==
    /\ last.op = "deleteWord"
    /\ last.res = "deleted"
    /\ wordCount = 2
    /\ library[0] = Word(<<"e">>, <<"b">>, <<"x">>, 2)
    /\ library[1] = Word(<<"c">>, <<"d">>, <<"x">>, 2)

\* C14: an answer equal to the english field of the entry asked, up to the
\* case of ASCII letters, is a match (score + 1, the store unchanged); any
\* other answer is a miss (score unchanged, errorCount + 1).
C14_AnswerCaseInsensitive ==
    [][last'.op = "askQuestion" =>
          LET i == indices[qi]
              answer == answers'[Len(answers')]
          IN  IF SameText(answer, library[i].english)
              THEN /\ last'.res = "correct"
                   /\ score' = score + 1
                   /\ library' = library
              ELSE /\ last'.res = "miss"
                   /\ score' = score
                   /\ library' = [library EXCEPT ![i].errorCount = @ + 1]]_vars

\* C15: a quiz in progress has one question or more, in places
\* 0..total-1; and a choice that selects nothing returns to the menu with
\* the store and the file as they were and without a call of saveToFile.
C15_NoQuizOverNothing ==
    /\ [](pc = "quiz" => (total >= 1 /\ DOMAIN indices = 0..(total - 1)))
    /\ [][(last'.op \in {"takeTest", "takeErrorTest"} /\ last'.res = "empty") =>
             /\ pc' = "menu"
             /\ \E c \in Selections(last'.op) : c.n = 0
             /\ UNCHANGED <<library, wordCount, folderList, folderCount,
                            file, fileExists, saveRet>>]_vars

\* A folder still listed, chosen when no stored entry has it.
C15_Witness ==
    /\ last.op = "takeTest"
    /\ last.res = "empty"
    /\ wordCount >= 1
    /\ \E k \in 0..(folderCount - 1) :
          \A i \in 0..(wordCount - 1) : library[i].folder # folderList[k]

====
